---- MODULE Spec2Model ----
(***************************************************************************)
(* Family_Book: the post / image / comment / like handlers of              *)
(* app/api/posts.py over the tables of app/models.py and the posts upload  *)
(* directory.  Each HTTP request runs in its own database session; the     *)
(* committed tables and the directory are the shared state.  The store is  *)
(* the default SQLite file (app/config.py: DATABASE_URL) with foreign keys *)
(* switched on (app/database.py: set_sqlite_pragma): one write transaction *)
(* at a time, integer keys handed out as max(rowid) + 1.                   *)
(***************************************************************************)
EXTENDS Integers, Sequences, FiniteSets, TLC

\* ---- bounds of the model ----
MaxPostId == 1      \* post ids are 1..MaxPostId
NumNames == 2       \* size of the pool the uuid4 file names are drawn from
MaxUploads == 2     \* uploads in one create_post request
MaxComments == 1    \* comment rows per post
NumReqs == 2        \* requests in flight at the same time

PostIds == 1..MaxPostId
Stems == 1..NumNames
Reqs == 1..NumReqs

\* ---- users (the user table is not changed by the handlers of posts.py) ----
Users == {"ann", "admin"}
NoUser == "anonymous"                 \* get_current_user returned None
Callers == Users \cup {NoUser}
role == [u \in Users |-> IF u = "admin" THEN "admin" ELSE "user"]

None == <<>>

\* ---- paths and urls ----
POSTS_PATH == "static/uploads/posts"
AVATARS_PATH == "static/uploads/avatars"

\* f"{uuid.uuid4().hex}.webp"
Filename(stem) == <<stem, "webp">>
\* upload_path / filename
JoinPath(dir, filename) == <<dir, filename>>
\* f"/static/uploads/posts/{filename}"
WebPath(filename) == <<"/static/uploads/posts", filename>>
\* os.path.basename(url): the last component
Basename(url) == url[Len(url)]
\* os.path.splitext(target_path)[0] + ".webp"
TargetPathWebp(target_path) == <<target_path[1], <<target_path[2][1], "webp">>>>

UploadKinds == {"image", "corrupt", "noname"}

\* ---- the image normalizer (app/utils/images.py) ----
max_size == <<2560, 1440>>

\* where the try block of process_and_save_image can fail
Failures == {"none", "decode", "transform", "encode"}

\* ImageOps.exif_transpose: orientations 5 to 8 swap the axes
ExifTranspose(size, rotated) == IF rotated THEN <<size[2], size[1]>> ELSE size

\* the candidate closer to the aspect ratio, at least 1 (the floor on a tie)
RoundAspect(lo, hi, keyLo, keyHi) ==
    LET best == IF keyHi < keyLo THEN hi ELSE lo
    IN  IF best < 1 THEN 1 ELSE best

Abs(i) == IF i < 0 THEN 0 - i ELSE i

\* process_and_save_image without the thumbnail call
ThumbnailSkipped(size, bound) == size

\* img.thumbnail(max_size, LANCZOS): the size of the image afterwards
Thumbnail(size, bound) ==
    LET w == size[1]
        h == size[2]
        x == bound[1]
        y == bound[2]
    IN  IF x >= w /\ y >= h
        THEN size
        ELSE IF x * h >= y * w
        THEN LET lo == (y * w) \div h
                 hi == IF (y * w) % h = 0 THEN lo ELSE lo + 1
             IN  <<RoundAspect(lo, hi, Abs(y * w - lo * h), Abs(y * w - hi * h)), y>>
        ELSE LET lo == (x * h) \div w
                 hi == IF (x * h) % w = 0 THEN lo ELSE lo + 1
             IN  <<x, RoundAspect(lo, hi,
                                  IF lo = 0 THEN 0 ELSE Abs(w * lo - x * h) * hi,
                                  Abs(w * hi - x * h) * lo)>>

\* lines 18-50, the try block: the exception it ends with ("none": it
\* returned), the value returned, the files written and the size saved.
\* A failing img.save may or may not leave a file behind (partial).
TryNormalize(source, target_path, partial) ==
    LET target_path_webp == TargetPathWebp(target_path)
    IN  IF source.fails \in {"decode", "transform"}
        THEN [exc |-> source.fails, ret |-> None, written |-> {}, size |-> None]
        ELSE IF source.fails = "encode"
        THEN [exc |-> "encode", ret |-> None,
              written |-> IF partial THEN {target_path_webp} ELSE {}, size |-> None]
        ELSE [exc |-> "none", ret |-> target_path_webp, written |-> {target_path_webp},
              size |-> Thumbnail(ExifTranspose(source.size, source.rotated), max_size)]

\* the try block without a handler: the exception reaches the caller
NormalizeUncaught(source, target_path, partial) ==
    LET tried == TryNormalize(source, target_path, partial)
    IN  [ret |-> tried.ret, written |-> tried.written, size |-> tried.size,
         raised |-> tried.exc # "none"]

\* lines 17-54: the try block and "except Exception: log_error; return None"
NormalizeAndSave(source, target_path, partial) ==
    LET tried == TryNormalize(source, target_path, partial)
    IN  [ret |-> IF tried.exc = "none" THEN tried.ret ELSE None,
         written |-> tried.written, size |-> tried.size, raised |-> FALSE]

\* an upload of create_post as a source of the normalizer
SourceOf(kind) ==
    [fails |-> IF kind = "image" THEN "none" ELSE "decode",
     size |-> <<1, 1>>, rotated |-> FALSE]

\* process_and_save_image without the decoding: the bytes are written as they
\* came and the path is returned for every upload
ProcessAndSaveImageNoDecode(kind, target_path) ==
    [ret |-> TargetPathWebp(target_path), written |-> {TargetPathWebp(target_path)}]

\* process_and_save_image(source_file, target_path): what it returns (the path
\* written, or None) and the files it leaves on disk.
ProcessAndSaveImage(kind, target_path) ==
    LET out == NormalizeAndSave(SourceOf(kind), target_path, FALSE)
    IN  [ret |-> out.ret, written |-> out.written]

\* every upload list a create_post request can carry
RECURSIVE SeqsUpTo(_, _)
SeqsUpTo(S, n) ==
    IF n = 0 THEN {<<>>}
    ELSE LET shorter == SeqsUpTo(S, n - 1)
         IN  shorter \cup {Append(q, x) : q \in {t \in shorter : Len(t) = n - 1}, x \in S}
UploadLists == SeqsUpTo(UploadKinds, MaxUploads)

NoRow == "no row"

VARIABLES
    posts,       \* committed post rows: id -> author_id, or NoRow
    images,      \* committed postimage rows: [url, post_id]
    comments,    \* committed comment rows per post id (a count)
    likes,       \* committed postlike rows per (user_id, post_id) (a count)
    disk,        \* the files that exist, as paths
    writer,      \* the request holding the store's write transaction, or 0
    req,         \* per worker: the request it runs, or ran last
    client,      \* like scenario: the toggle each client sends, and how often
    sent,        \* like scenario: the toggles of each client answered so far
    likes0,      \* like scenario: the postlike rows at the start
    call,        \* normalizer scenario: one call of process_and_save_image
    avatar_url,  \* committed user rows: user id -> avatar_url
    areq,        \* per worker: the update_avatar request it runs, or ran last
    users,       \* committed user rows: [id, display_name]
    nreq         \* per worker: the register or update_name request it runs

vars == <<posts, images, comments, likes, disk, writer, req, client, sent, likes0,
          call, avatar_url, areq, users, nreq>>
names == <<users, nreq>>
accounts == <<avatar_url, areq, names>>
rest == <<call, accounts>>
scenario == <<client, sent, likes0, rest>>
db == <<posts, images, comments, likes>>

\* A request: the handler (op), its position (pc), its arguments and locals,
\* and, once it is over (pc = "done"), its response.
Idle ==
    [pc |-> "idle", op |-> "none", user_id |-> NoUser, post_id |-> 0,
     files |-> <<>>, n |-> 0, rows |-> {}, existing |-> FALSE,
     images |-> {}, todo |-> {}, removed |-> {}, failed |-> {},
     response |-> "none"]

Request(op, user_id, post_id) ==
    [Idle EXCEPT !.op = op, !.user_id = user_id, !.post_id = post_id]

NoCall == [pc |-> "none"]

\* ---- avatars ----
STATIC_PATH == "static"
\* the file name default_avatar.png: its stem is written 0
default_avatar == 0
DefaultAvatarUrl == <<"/static", <<default_avatar, "png">>>>
DefaultAvatarFile == JoinPath(STATIC_PATH, <<default_avatar, "png">>)
\* f"/static/uploads/avatars/{final_filename}"
AvatarWebPath(filename) == <<"/static/uploads/avatars", filename>>
\* "default_avatar.png" in url: of the urls the handlers store (a directory
\* and a file name) only the one with this file name contains it
IsDefaultAvatar(url) == Basename(url) = <<default_avatar, "png">>

AvatarIdle == [pc |-> "idle"]

\* ---- user rows and display names (a name is its sequence of characters) ----
MaxUsers == 3       \* user ids are 1..MaxUsers
UserIds == 1..MaxUsers
\* str.strip(): without the blanks at either end
RECURSIVE Strip(_)
Strip(name) ==
    IF name = <<>> THEN name
    ELSE IF Head(name) = " " THEN Strip(Tail(name))
    ELSE IF name[Len(name)] = " " THEN Strip(SubSeq(name, 1, Len(name) - 1))
    ELSE name
\* the display name create_db_and_tables gives the system admin, shortened
AdminName == <<"M", "S">>
InitialUsers == {[id |-> 1, display_name |-> AdminName]}
NameIdle == [pc |-> "idle"]

Init ==
    /\ posts = [p \in PostIds |-> NoRow]
    /\ images = {}
    /\ comments = [p \in PostIds |-> 0]
    /\ likes = [k \in Users \X PostIds |-> 0]
    /\ disk = {}
    /\ writer = 0
    /\ req = [r \in Reqs |-> Idle]
    /\ client = [r \in Reqs |-> [user_id |-> NoUser, post_id |-> 0, clicks |-> 0]]
    /\ sent = [r \in Reqs |-> 0]
    /\ likes0 = likes
    /\ call = NoCall
    /\ avatar_url = [u \in Users |-> DefaultAvatarUrl]
    /\ areq = [r \in Reqs |-> AvatarIdle]
    /\ users = InitialUsers
    /\ nreq = [r \in Reqs |-> NameIdle]

PostExists(p) == p \in PostIds /\ posts[p] # NoRow
PostImages(p) == {i \in images : i.post_id = p}

\* the integer key SQLite gives the next post row: max(rowid) + 1
NextPostId ==
    LET used == {p \in PostIds : posts[p] # NoRow}
    IN  IF used = {} THEN 1 ELSE (CHOOSE m \in used : \A q \in used : q <= m) + 1

\* uuid4 never repeats: a name no file, row or request still carries
StemOf(path) == path[2][1]
UsedStems ==
    {StemOf(f) : f \in disk} \cup {StemOf(i.url) : i \in images}
    \cup UNION {{StemOf(i.url) : i \in req[r].rows \cup req[r].images} : r \in Reqs}
FreshStems == Stems \ UsedStems
\* unused names are interchangeable: the request takes the first of them
NewStem == {s \in FreshStems : \A t \in FreshStems : s <= t}
\* idle workers are interchangeable: a request is taken by the first of them
Accepts(r) == req[r].pc = "idle" /\ \A q \in Reqs : req[q].pc = "idle" => r <= q

\* the request is over: its session closes, what it had not committed is
\* rolled back, and the response leaves
Finish(r, rq, response) ==
    /\ req' = [req EXCEPT ![r] =
                   [Request(rq.op, rq.user_id, rq.post_id) EXCEPT
                        !.pc = "done", !.response = response]]
    /\ writer' = IF writer = r THEN 0 ELSE writer

\* create_post whose flush is a commit: the post row is in the table at once
CreateBeginAutocommit(r, user_id, files, fault) ==
    /\ req[r].pc = "idle"
    /\ LET rq == [Request("create_post", user_id, 0) EXCEPT !.files = files]
       IN  IF user_id = NoUser
           THEN Finish(r, rq, "login") /\ UNCHANGED posts
           ELSE IF fault
           THEN Finish(r, rq, "error") /\ UNCHANGED posts
           ELSE /\ writer = 0
                /\ NextPostId <= MaxPostId
                /\ writer' = r
                /\ posts' = [posts EXCEPT ![NextPostId] = user_id]
                /\ req' = [req EXCEPT ![r] = [rq EXCEPT
                               !.pc = "create_files", !.post_id = NextPostId, !.n = 1]]
    /\ UNCHANGED <<images, comments, likes, disk>>

\* ------------------------------------------------------------ create_post
\* lines 60-82: the login guard, then session.add(new_post); flush();
\* refresh(), and the posts directory is made sure of
CreateBegin(r, user_id, files, fault) ==
    /\ req[r].pc = "idle"
    /\ LET rq == [Request("create_post", user_id, 0) EXCEPT !.files = files]
       IN  IF user_id = NoUser
           THEN Finish(r, rq, "login")
           ELSE IF fault
           THEN Finish(r, rq, "error")
           ELSE /\ writer = 0
                /\ NextPostId <= MaxPostId
                /\ writer' = r
                /\ req' = [req EXCEPT ![r] = [rq EXCEPT
                               !.pc = "create_files", !.post_id = NextPostId, !.n = 1]]
    /\ UNCHANGED <<db, disk>>

\* lines 81-82 raise (the directory cannot be made): the except branch
CreateMkdirFails(r) ==
    /\ req[r].pc = "create_files"
    /\ req[r].n = 1
    /\ Finish(r, req[r], "error")
    /\ UNCHANGED <<db, disk>>

\* the loop round without the "if saved_path" test: the row is added whatever
\* process_and_save_image returned
CreateFileAlwaysAdds(r) ==
    /\ req[r].pc = "create_files"
    /\ req[r].n <= Len(req[r].files)
    /\ LET file == req[r].files[req[r].n]
       IN  IF file = "noname"
           THEN /\ req' = [req EXCEPT ![r].n = @ + 1]
                /\ UNCHANGED disk
           ELSE \E stem \in (IF file = "image" THEN NewStem ELSE {0}) :
                LET filename == Filename(stem)
                    target_path == JoinPath(POSTS_PATH, filename)
                    saved == ProcessAndSaveImage(file, target_path)
                    img_entry == [url |-> WebPath(filename), post_id |-> req[r].post_id]
                IN  /\ disk' = disk \cup saved.written
                    /\ req' = [req EXCEPT ![r].n = @ + 1,
                                   ![r].rows = @ \cup {img_entry}]
    /\ UNCHANGED <<db, writer>>

\* lines 84-96: one round of the loop over the uploads
CreateFile(r) ==
    /\ req[r].pc = "create_files"
    /\ req[r].n <= Len(req[r].files)
    /\ LET file == req[r].files[req[r].n]
       IN  IF file = "noname"
           THEN /\ req' = [req EXCEPT ![r].n = @ + 1]
                /\ UNCHANGED disk
           ELSE \E stem \in (IF file = "image" THEN NewStem ELSE {0}) :
                LET filename == Filename(stem)
                    target_path == JoinPath(POSTS_PATH, filename)
                    saved == ProcessAndSaveImage(file, target_path)
                    img_entry == [url |-> WebPath(filename), post_id |-> req[r].post_id]
                IN  /\ disk' = disk \cup saved.written
                    /\ req' = [req EXCEPT ![r].n = @ + 1,
                                   ![r].rows = IF saved.ret # None
                                               THEN @ \cup {img_entry} ELSE @]
    /\ UNCHANGED <<db, writer>>

\* line 98: session.commit(); lines 102-105: rollback on any exception
CreateCommit(r, fault) ==
    /\ req[r].pc = "create_files"
    /\ req[r].n > Len(req[r].files)
    /\ IF fault
       THEN /\ Finish(r, req[r], "error")
            /\ UNCHANGED db
       ELSE /\ posts' = [posts EXCEPT ![req[r].post_id] = req[r].user_id]
            /\ images' = images \cup req[r].rows
            /\ Finish(r, req[r], "created")
            /\ UNCHANGED <<comments, likes>>
    /\ UNCHANGED disk

\* ---------------------------------------------------------- create_comment
\* create_comment on a store that does not check the foreign key post.id
CreateCommentNoForeignKey(r, user_id, post_id, blank, fault) ==
    /\ req[r].pc = "idle"
    /\ LET rq == Request("create_comment", user_id, post_id)
       IN  IF blank
           THEN Finish(r, rq, "info") /\ UNCHANGED db
           ELSE IF fault \/ user_id = NoUser
           THEN Finish(r, rq, "error") /\ UNCHANGED db
           ELSE /\ writer = 0
                /\ comments[post_id] < MaxComments
                /\ comments' = [comments EXCEPT ![post_id] = @ + 1]
                /\ Finish(r, rq, "commented")
                /\ UNCHANGED <<posts, images, likes>>
    /\ UNCHANGED disk

\* lines 151-171: one insert and its commit; every exception is caught
CreateComment(r, user_id, post_id, blank, fault) ==
    /\ req[r].pc = "idle"
    /\ LET rq == Request("create_comment", user_id, post_id)
       IN  IF blank
           THEN Finish(r, rq, "info") /\ UNCHANGED db
           ELSE IF fault \/ user_id = NoUser \/ ~PostExists(post_id)
           THEN Finish(r, rq, "error") /\ UNCHANGED db
           ELSE /\ writer = 0
                /\ comments[post_id] < MaxComments
                /\ comments' = [comments EXCEPT ![post_id] = @ + 1]
                /\ Finish(r, rq, "commented")
                /\ UNCHANGED <<posts, images, likes>>
    /\ UNCHANGED disk

\* ------------------------------------------------------------- toggle_like
\* lines 180-185: the login guard and the select of the existing like
ToggleRead(r, user_id, post_id) ==
    /\ req[r].pc = "idle"
    /\ LET rq == Request("toggle_like", user_id, post_id)
       IN  IF user_id = NoUser
           THEN Finish(r, rq, "login")
           ELSE /\ req' = [req EXCEPT ![r] = [rq EXCEPT
                               !.pc = "like_commit",
                               !.existing = (likes[<<user_id, post_id>>] > 0)]]
                /\ UNCHANGED writer
    /\ UNCHANGED <<db, disk>>

\* a postlike table whose primary key is post_id alone
InsertLikeAllowedPostKey(user_id, post_id) ==
    /\ \A u \in Users : likes[<<u, post_id>>] = 0
    /\ PostExists(post_id)

\* a postlike table without a primary key
InsertLikeAllowedNoKey(user_id, post_id) == PostExists(post_id)

\* the insert of a postlike row: the primary key (user_id, post_id) and the
\* foreign key post.id are checked by the store
InsertLikeAllowed(user_id, post_id) ==
    /\ likes[<<user_id, post_id>>] = 0
    /\ PostExists(post_id)

\* toggle_like without the session.delete of the existing like
ToggleCommitNoDelete(r, fault) ==
    /\ req[r].pc = "like_commit"
    /\ LET k == <<req[r].user_id, req[r].post_id>>
       IN  IF fault
           THEN Finish(r, req[r], "OperationalError") /\ UNCHANGED likes
           ELSE IF req[r].existing
           THEN /\ writer = 0
                /\ UNCHANGED likes
                /\ Finish(r, req[r], "unliked")
           ELSE IF ~InsertLikeAllowed(k[1], k[2])
           THEN Finish(r, req[r], "IntegrityError") /\ UNCHANGED likes
           ELSE /\ writer = 0
                /\ likes' = [likes EXCEPT ![k] = @ + 1]
                /\ Finish(r, req[r], "liked")
    /\ UNCHANGED <<posts, images, comments, disk>>

\* lines 187-195: delete or add, then session.commit(); nothing is caught
ToggleCommit(r, fault) ==
    /\ req[r].pc = "like_commit"
    /\ LET k == <<req[r].user_id, req[r].post_id>>
       IN  IF fault
           THEN Finish(r, req[r], "OperationalError") /\ UNCHANGED likes
           ELSE IF req[r].existing
           THEN /\ writer = 0
                /\ likes' = [likes EXCEPT ![k] = 0]
                /\ Finish(r, req[r], "unliked")
           ELSE IF ~InsertLikeAllowed(k[1], k[2])
           THEN Finish(r, req[r], "IntegrityError") /\ UNCHANGED likes
           ELSE /\ writer = 0
                /\ likes' = [likes EXCEPT ![k] = @ + 1]
                /\ Finish(r, req[r], "liked")
    /\ UNCHANGED <<posts, images, comments, disk>>

\* delete_post without the authorization check
MayDeleteAnyUser(user_id, post_id) == user_id \in Users

\* ------------------------------------------------------------- delete_post
\* line 236: only the author or an admin
MayDelete(user_id, post_id) ==
    posts[post_id] = user_id \/ role[user_id] = "admin"

\* delete_post that tests "if not user" only: post.author_id of a missing
\* post raises
DeleteLoadNoPostCheck(r, user_id, post_id) ==
    /\ req[r].pc = "idle"
    /\ LET rq == Request("delete_post", user_id, post_id)
       IN  IF user_id \notin Users
           THEN Finish(r, rq, "notfound")
           ELSE IF ~PostExists(post_id)
           THEN Finish(r, rq, "AttributeError")
           ELSE IF ~MayDelete(user_id, post_id)
           THEN Finish(r, rq, "denied")
           ELSE /\ req' = [req EXCEPT ![r] = [rq EXCEPT
                               !.pc = "del_files",
                               !.images = PostImages(post_id),
                               !.todo = PostImages(post_id)]]
                /\ UNCHANGED writer
    /\ UNCHANGED <<db, disk>>

\* lines 225-238: load the post with its images and the user, then the checks
DeleteLoad(r, user_id, post_id) ==
    /\ req[r].pc = "idle"
    /\ LET rq == Request("delete_post", user_id, post_id)
       IN  IF ~PostExists(post_id) \/ user_id \notin Users
           THEN Finish(r, rq, "notfound")
           ELSE IF ~MayDelete(user_id, post_id)
           THEN Finish(r, rq, "denied")
           ELSE /\ req' = [req EXCEPT ![r] = [rq EXCEPT
                               !.pc = "del_files",
                               !.images = PostImages(post_id),
                               !.todo = PostImages(post_id)]]
                /\ UNCHANGED writer
    /\ UNCHANGED <<db, disk>>

\* the file a stored value names when it is taken as a path as it stands
ImageFilePathAsStored(img) == JoinPath(img.url[1], Basename(img.url))

\* lines 242-243: the file an image row stands for
ImageFilePath(img) == JoinPath(POSTS_PATH, Basename(img.url))

\* the base names "" (a value that ends with a slash) and "..": joined to the
\* posts directory they name the directory itself and its parent
EmptyName == <<0, "">>
DotDot == <<0, "..">>
Directories == {JoinPath(POSTS_PATH, EmptyName), JoinPath(POSTS_PATH, DotDot)}

\* the loop round without the os.remove call
DeleteFileKeeps(r, img, ioerr) ==
    /\ req[r].pc = "del_files"
    /\ img \in req[r].todo
    /\ req' = [req EXCEPT ![r].todo = @ \ {img}]
    /\ UNCHANGED <<db, disk, writer>>

\* lines 241-249: one round of the loop over post.images
\* (exists() is true of a directory, and os.remove of a directory raises)
DeleteFile(r, img, ioerr) ==
    /\ req[r].pc = "del_files"
    /\ img \in req[r].todo
    /\ LET file_path == ImageFilePath(img)
       IN  IF file_path \in disk
           THEN IF ioerr
                THEN /\ req' = [req EXCEPT ![r].todo = @ \ {img},
                                     ![r].failed = @ \cup {file_path}]
                     /\ UNCHANGED disk
                ELSE /\ disk' = disk \ {file_path}
                     /\ req' = [req EXCEPT ![r].todo = @ \ {img},
                                     ![r].removed = @ \cup {file_path}]
           ELSE IF file_path \in Directories
           THEN /\ req' = [req EXCEPT ![r].todo = @ \ {img},
                                ![r].failed = @ \cup {file_path}]
                /\ UNCHANGED disk
           ELSE /\ req' = [req EXCEPT ![r].todo = @ \ {img}]
                /\ UNCHANGED disk
    /\ UNCHANGED <<db, writer>>

\* delete_post that commits the removal of the image rows on its own, before
\* the removal of the post row
DeleteCommitPiecewise(r, fault) ==
    /\ req[r].pc = "del_files"
    /\ req[r].todo = {}
    /\ LET p == req[r].post_id
       IN  /\ writer = 0
           /\ images' = {i \in images : i.post_id # p}
           /\ IF fault
              THEN /\ Finish(r, req[r], "OperationalError")
                   /\ UNCHANGED <<posts, comments, likes>>
              ELSE /\ posts' = [posts EXCEPT ![p] = NoRow]
                   /\ comments' = [comments EXCEPT ![p] = 0]
                   /\ likes' = [k \in Users \X PostIds |->
                                   IF k[2] = p THEN 0 ELSE likes[k]]
                   /\ Finish(r, req[r], "deleted")
    /\ UNCHANGED disk

\* delete_post that commits while rounds of its loop are still to come
DeleteCommitEarly(r, fault) ==
    /\ req[r].pc = "del_files"
    /\ IF fault
       THEN Finish(r, req[r], "OperationalError") /\ UNCHANGED db
       ELSE LET p == req[r].post_id
            IN  /\ writer = 0
                /\ posts' = [posts EXCEPT ![p] = NoRow]
                /\ images' = {i \in images : i.post_id # p}
                /\ comments' = [comments EXCEPT ![p] = 0]
                /\ likes' = [k \in Users \X PostIds |->
                                IF k[2] = p THEN 0 ELSE likes[k]]
                /\ Finish(r, req[r], "deleted")
    /\ UNCHANGED disk

\* lines 252-253: session.delete(post); session.commit(); nothing is caught.
\* The unit of work deletes the like rows of the post (the link table of
\* Post.likers), its comments and its images, then the post row.
DeleteCommit(r, fault) ==
    /\ req[r].pc = "del_files"
    /\ req[r].todo = {}
    /\ IF fault
       THEN Finish(r, req[r], "OperationalError") /\ UNCHANGED db
       ELSE LET p == req[r].post_id
            IN  /\ writer = 0
                /\ posts' = [posts EXCEPT ![p] = NoRow]
                /\ images' = {i \in images : i.post_id # p}
                /\ comments' = [comments EXCEPT ![p] = 0]
                /\ likes' = [k \in Users \X PostIds |->
                                IF k[2] = p THEN 0 ELSE likes[k]]
                /\ Finish(r, req[r], "deleted")
    /\ UNCHANGED disk

\* the response has left: the worker is free for the next request
Respond(r) ==
    /\ req[r].pc = "done"
    /\ req' = [req EXCEPT ![r] = Idle]
    /\ UNCHANGED <<db, disk, writer>>

\* the worker of a request dies: its session never commits
Crash(r) ==
    /\ req[r].pc \notin {"idle", "done"}
    /\ Finish(r, req[r], "crashed")
    /\ UNCHANGED <<db, disk>>

Step(r) ==
    \/ \E u \in Callers, fs \in UploadLists, f \in BOOLEAN :
           Accepts(r) /\ CreateBegin(r, u, fs, f) /\ UNCHANGED scenario
    \/ CreateMkdirFails(r) /\ UNCHANGED scenario
    \/ CreateFile(r) /\ UNCHANGED scenario
    \/ \E f \in BOOLEAN : CreateCommit(r, f) /\ UNCHANGED scenario
    \/ \E u \in Callers, p \in PostIds, b \in BOOLEAN, f \in BOOLEAN :
           Accepts(r) /\ CreateComment(r, u, p, b, f) /\ UNCHANGED scenario
    \/ \E u \in Callers, p \in PostIds :
           Accepts(r) /\ ToggleRead(r, u, p) /\ UNCHANGED scenario
    \/ \E f \in BOOLEAN : ToggleCommit(r, f) /\ UNCHANGED scenario
    \/ \E u \in Callers, p \in PostIds :
           Accepts(r) /\ DeleteLoad(r, u, p) /\ UNCHANGED scenario
    \/ \E i \in req[r].todo, e \in BOOLEAN : DeleteFile(r, i, e) /\ UNCHANGED scenario
    \/ \E f \in BOOLEAN : DeleteCommit(r, f) /\ UNCHANGED scenario
    \/ Crash(r) /\ UNCHANGED scenario
    \/ Respond(r) /\ UNCHANGED scenario

Next == \E r \in Reqs : Step(r)

Spec == Init /\ [][Next]_vars

\* ---------------------------------------------------------------------
\* What a step of the model is, for the properties below.
\* worker r takes a step of handler op
Runs(r, op) == req[r].pc # "done" /\ req'[r] # req[r] /\ req'[r].op = op
\* worker r's request ends in this step with the given response
Ends(r, op, response) == Runs(r, op) /\ req'[r].pc = "done" /\ req'[r].response = response
\* worker r's request ends in this step, whatever the response
Over(r, op) == Runs(r, op) /\ req'[r].pc = "done"
\* the committed rows that belong to post p, after the step
NoRowsLeft(p) ==
    /\ posts'[p] = NoRow
    /\ {i \in images' : i.post_id = p} = {}
    /\ comments'[p] = 0
CountImages(files) == Cardinality({j \in 1..Len(files) : files[j] = "image"})

\* C1 as stated: when an authorized delete_post has run to its end, no post,
\* postimage or comment row of the post is left and none of the files its
\* image urls stood for is left in the posts directory.
C1_AsStated ==
    [][\A r \in Reqs : Ends(r, "delete_post", "deleted") =>
           /\ NoRowsLeft(req[r].post_id)
           /\ \A i \in req[r].images : ImageFilePath(i) \notin disk']_vars

\* C1 amended: when an authorized delete_post has run to its end, no post,
\* postimage or comment row of the post is left, and each file its image urls
\* stood for is gone from the posts directory unless os.remove raised for it
\* (the failure is logged and the request goes on).
C1_Amended ==
    [][\A r \in Reqs : Ends(r, "delete_post", "deleted") =>
           /\ NoRowsLeft(req[r].post_id)
           /\ \A i \in req[r].images :
                  ImageFilePath(i) \in disk' => ImageFilePath(i) \in req[r].failed]_vars

\* a delete_post by the author has ended, the post and every file are gone
C1_Witness ==
    \E r \in Reqs :
        /\ req[r].pc = "done" /\ req[r].op = "delete_post"
        /\ req[r].response = "deleted" /\ req[r].user_id = "ann"
        /\ ~PostExists(req[r].post_id) /\ images = {} /\ disk = {}
        /\ \E q \in Reqs : req[q].pc = "del_files" /\ req[q].images # {}
                           /\ req[q].post_id = req[r].post_id

\* C2: a delete_post of an existing post by a user who is neither its author
\* nor an admin ends at once with the permission failure, and no row and no
\* file is changed by it.
C2_DeniedChangesNothing ==
    [][\A r \in Reqs :
           (Runs(r, "delete_post") /\ req[r].pc = "idle"
            /\ PostExists(req'[r].post_id) /\ req'[r].user_id \in Users
            /\ posts[req'[r].post_id] # req'[r].user_id
            /\ role[req'[r].user_id] # "admin")
           => (Ends(r, "delete_post", "denied") /\ UNCHANGED <<db, disk>>)]_vars

\* ann was denied the deletion of admin's post, which has an image and a file
C2_Witness ==
    \E r \in Reqs :
        /\ req[r].pc = "done" /\ req[r].op = "delete_post"
        /\ req[r].response = "denied" /\ req[r].user_id = "ann"
        /\ posts[req[r].post_id] = "admin"
        /\ \E i \in PostImages(req[r].post_id) : ImageFilePath(i) \in disk

\* C3: a create_post whose uploads hold K images that normalize and M that do
\* not (uploads without a filename skipped) commits one post with exactly K
\* image rows, one per file written, each resolving to a file that exists;
\* every upload is processed whatever became of the ones before it, and with
\* K = 0 the post is committed all the same.
C3_CreateCommitsKImages ==
    [][\A r \in Reqs :
           /\ (req'[r].pc = "create_files" =>
                  Cardinality(req'[r].rows)
                      = CountImages(SubSeq(req'[r].files, 1, req'[r].n - 1)))
           /\ (Ends(r, "create_post", "created") =>
                  LET p == req[r].post_id
                      mine == {i \in images' : i.post_id = p}
                  IN  /\ req[r].n = Len(req[r].files) + 1
                      /\ posts[p] = NoRow /\ posts'[p] = req[r].user_id
                      /\ \A q \in PostIds \ {p} : posts'[q] = posts[q]
                      /\ Cardinality(mine) = CountImages(req[r].files)
                      /\ Cardinality({ImageFilePath(i) : i \in mine})
                             = CountImages(req[r].files)
                      /\ \A i \in mine : ImageFilePath(i) \in disk')]_vars

\* a create_post has gone through a corrupt upload and then an image: one
\* row is pending, its file is on disk, the commit is next
C3_Witness ==
    \E r \in Reqs :
        /\ req[r].pc = "create_files"
        /\ req[r].files = <<"corrupt", "image">> /\ req[r].n = 3
        /\ Cardinality(req[r].rows) = 1
        /\ \A i \in req[r].rows : ImageFilePath(i) \in disk

\* C4 as stated: whatever its outcome, a delete_post leaves either nothing of
\* the post (its row, its image, comment and like rows, its image files) or
\* the rows and the files exactly as they were.
C4_AsStated ==
    [][\A r \in Reqs :
           Over(r, "delete_post") =>
               \/ /\ NoRowsLeft(req'[r].post_id)
                  /\ \A u \in Users : likes'[<<u, req'[r].post_id>>] = 0
                  /\ \A i \in req[r].images : ImageFilePath(i) \notin disk'
               \/ /\ UNCHANGED <<db, disk>>
                  /\ req[r].removed = {}]_vars

\* C4 amended: a delete_post ends in one of three ways.  Not found or
\* permission denied: it changed no row and no file.  Committed: the post row
\* and its image, comment and like rows are gone, and each image file is gone
\* unless its removal raised.  Failed or died before the commit: it changed no
\* row, and the image files it had removed stay removed.  No step of it before
\* the commit changes a row.
C4_Amended ==
    [][\A r \in Reqs :
           /\ (Runs(r, "delete_post") /\ ~Ends(r, "delete_post", "deleted")
                  => UNCHANGED db)
           /\ \A resp \in {"notfound", "denied"} :
                  Ends(r, "delete_post", resp) =>
                      UNCHANGED <<db, disk>> /\ req[r].pc = "idle"
           /\ \A resp \in {"OperationalError", "crashed"} :
                  Ends(r, "delete_post", resp) =>
                      UNCHANGED <<db, disk>> /\ req[r].removed \cap disk = {}
           /\ Ends(r, "delete_post", "deleted") =>
                  /\ NoRowsLeft(req[r].post_id)
                  /\ \A u \in Users : likes'[<<u, req[r].post_id>>] = 0
                  /\ \A i \in req[r].images :
                         ImageFilePath(i) \in disk' => ImageFilePath(i) \in req[r].failed
                  /\ UNCHANGED disk]_vars

\* a delete_post failed at its commit: the liked post and its image row are
\* still there, the file is not
C4_Witness ==
    \E r \in Reqs :
        /\ req[r].pc = "done" /\ req[r].op = "delete_post"
        /\ req[r].response = "OperationalError"
        /\ PostExists(req[r].post_id)
        /\ \E u \in Users : likes[<<u, req[r].post_id>>] = 1
        /\ \E i \in PostImages(req[r].post_id) : ImageFilePath(i) \notin disk

\* C5 as stated: in every reachable state the url of each committed postimage
\* row resolves to a file that exists in the posts directory.
C5_AsStated == \A i \in images : ImageFilePath(i) \in disk

\* C5 amended: a postimage row is committed with its file on disk, and the
\* file of a committed row leaves the disk only when a delete_post that
\* loaded the row removes it; the row then stays without a file until that
\* delete_post commits, and for good when its commit fails or its worker dies.
C5_Amended ==
    [][\A i \in images' : ImageFilePath(i) \notin disk' =>
           \/ i \in images /\ ImageFilePath(i) \notin disk
           \/ \E r \in Reqs : /\ Runs(r, "delete_post")
                              /\ req[r].pc = "del_files"
                              /\ i \in req[r].todo
                              /\ ImageFilePath(i) \in req'[r].removed]_vars

\* an image row is left without its file and no delete_post is under way
C5_Witness ==
    /\ \E i \in images : ImageFilePath(i) \notin disk
    /\ \A r \in Reqs : req[r].pc \in {"idle", "done"}
    /\ \E r \in Reqs : req[r].op = "delete_post" /\ req[r].response = "crashed"

\* C6: a create_post that does not reach a successful commit (an error after
\* the insert of the post row, a failed commit, a dead worker) never changes
\* the committed tables: its post row and image rows are in no committed
\* state, and no other row changes.
C6_RollbackLeavesNothing ==
    [][\A r \in Reqs :
           /\ (Runs(r, "create_post") /\ ~Ends(r, "create_post", "created")
                  => UNCHANGED db)
           /\ (req'[r].pc = "create_files" =>
                  /\ posts'[req'[r].post_id] = NoRow
                  /\ req'[r].rows \cap images' = {})]_vars

\* a create_post ended with the error response after a file was written; the
\* file is on disk and no row stands for it
C6_Witness ==
    \E r \in Reqs :
        /\ req[r].pc = "done" /\ req[r].op = "create_post"
        /\ req[r].response = "error" /\ req[r].user_id \in Users
        /\ \A p \in PostIds : posts[p] = NoRow
        /\ images = {} /\ disk # {}

\* C9: a delete_post of a post id that has no row (never made, or deleted
\* before) changes no row and no file and ends with the redirect, not with an
\* exception; so a second delete_post of a post leaves what the first left.
C9_DeleteMissingIsNoop ==
    [][\A r \in Reqs :
           (Runs(r, "delete_post") /\ req[r].pc = "idle"
            /\ posts[req'[r].post_id] = NoRow)
           => (Ends(r, "delete_post", "notfound") /\ UNCHANGED <<db, disk>>)]_vars

\* a delete_post of a post was answered "deleted", a second one "not found"
C9_Witness ==
    \E r, q \in Reqs :
        /\ req[r].pc = "done" /\ req[r].op = "delete_post"
        /\ req[r].response = "deleted"
        /\ req[q].pc = "done" /\ req[q].op = "delete_post"
        /\ req[q].response = "notfound" /\ req[q].post_id = req[r].post_id
        /\ req[q].user_id \in Users

\* C10: there is never more than one postlike row for a (user, post) pair,
\* also when toggle_like requests of one user on one post interleave their
\* select and their commit; each toggle_like ends with that one row toggled or
\* with the table as it was.
C10_OneLikePerPair ==
    [][/\ \A k \in Users \X PostIds : likes'[k] <= 1
       /\ \A r \in Reqs :
              Over(r, "toggle_like") =>
                  \/ likes' = likes
                  \/ \E k \in Users \X PostIds :
                         /\ k = <<req'[r].user_id, req'[r].post_id>>
                         /\ likes' = [likes EXCEPT ![k] = 1 - @]]_vars

\* two toggle_like requests of one user on one post both found no row; one
\* has committed its insert, the other is about to commit
C10_Witness ==
    \E r, q \in Reqs :
        /\ req[r].pc = "like_commit" /\ ~req[r].existing
        /\ req[q].pc = "done" /\ req[q].op = "toggle_like"
        /\ req[q].response = "liked"
        /\ req[q].user_id = req[r].user_id /\ req[q].post_id = req[r].post_id
        /\ likes[<<req[r].user_id, req[r].post_id>>] = 1

\* C14 as stated: while a delete_post has a removal attempt pending the post
\* row is in the committed table, a delete_post commits only when none of its
\* attempts is pending, and a delete_post that stops before its commit leaves
\* the post row and the image rows it loaded in the table.
C14_AsStated ==
    [][\A r \in Reqs :
           /\ (req'[r].pc = "del_files" /\ req'[r].todo # {}
                  => posts'[req'[r].post_id] # NoRow)
           /\ (Ends(r, "delete_post", "deleted") => req[r].todo = {})
           /\ \A resp \in {"OperationalError", "crashed"} :
                  Ends(r, "delete_post", resp) =>
                      /\ posts'[req[r].post_id] # NoRow
                      /\ req[r].images \subseteq images']_vars

\* C14 amended: a post row leaves the committed table only in the commit of
\* a delete_post of that post, and that request has by then made the removal
\* attempt for every image row it loaded; no earlier step of a delete_post,
\* and no step of one that stops before its commit, changes a row.  While a
\* delete_post has attempts pending, or when it stops, the post row is
\* missing only if another delete_post of the same post has committed.
C14_Amended ==
    [][/\ \A p \in PostIds :
              (posts[p] # NoRow /\ posts'[p] = NoRow) =>
                  \E r \in Reqs : /\ Ends(r, "delete_post", "deleted")
                                  /\ req[r].post_id = p
                                  /\ req[r].pc = "del_files"
                                  /\ req[r].todo = {}
       /\ \A r \in Reqs :
              /\ (Ends(r, "delete_post", "deleted") =>
                     /\ req[r].pc = "del_files" /\ req[r].todo = {}
                     /\ \A i \in req[r].images :
                            ImageFilePath(i) \in disk' => ImageFilePath(i) \in req[r].failed)
              /\ (Runs(r, "delete_post") /\ ~Ends(r, "delete_post", "deleted")
                     => /\ UNCHANGED db
                        /\ (posts[req'[r].post_id] # NoRow /\ req[r].pc = "del_files"
                               => /\ posts'[req[r].post_id] # NoRow
                                  /\ PostImages(req[r].post_id) \subseteq images'))]_vars

\* a delete_post has committed while a second delete_post of the same post
\* still has a removal attempt to make
C14_Witness ==
    \E r, q \in Reqs :
        /\ req[r].pc = "done" /\ req[r].op = "delete_post"
        /\ req[r].response = "deleted"
        /\ req[q].pc = "del_files" /\ req[q].todo # {}
        /\ req[q].post_id = req[r].post_id
        /\ posts[req[q].post_id] = NoRow

\* C15: every committed postimage, comment and postlike row references a post
\* row that exists; the step that removes a post row removes its image,
\* comment and like rows with it; and a create_comment or toggle_like insert
\* for a post that is not in the table (deleted before, or while the
\* toggle_like was between its select and its commit) commits no row.
C15_ForeignKeysHold ==
    [][/\ \A i \in images' : posts'[i.post_id] # NoRow
       /\ \A p \in PostIds :
              /\ comments'[p] > 0 => posts'[p] # NoRow
              /\ \A u \in Users : likes'[<<u, p>>] > 0 => posts'[p] # NoRow
              /\ (posts[p] # NoRow /\ posts'[p] = NoRow) =>
                     /\ NoRowsLeft(p)
                     /\ \A u \in Users : likes'[<<u, p>>] = 0
       /\ \A r \in Reqs :
              /\ (Over(r, "create_comment") /\ posts[req'[r].post_id] = NoRow)
                     => (UNCHANGED db /\ req'[r].response \in {"error", "info"})
              /\ (Over(r, "toggle_like") /\ posts[req'[r].post_id] = NoRow)
                     => (UNCHANGED db /\ req'[r].response # "liked")]_vars

\* a toggle_like found no like and is about to insert one, and the post has
\* been deleted in the meantime with the comment it had
C15_Witness ==
    \E r, q \in Reqs :
        /\ req[r].pc = "like_commit" /\ ~req[r].existing
        /\ req[q].pc = "done" /\ req[q].op = "delete_post"
        /\ req[q].response = "deleted" /\ req[q].post_id = req[r].post_id
        /\ posts[req[r].post_id] = NoRow

\* ---------------------------------------------------------------------
\* The like scenario: every client is one user clicking "like" on one post,
\* each click sent after the answer to the one before; the clients run side
\* by side, and the store does not fail.
MaxClicks == 2

LikesInit ==
    /\ posts \in [PostIds -> Users \cup {NoRow}]
    /\ images = {}
    /\ comments = [p \in PostIds |-> 0]
    /\ likes \in [Users \X PostIds -> {0, 1}]
    /\ \A k \in Users \X PostIds : likes[k] = 1 => posts[k[2]] # NoRow
    /\ disk = {}
    /\ writer = 0
    /\ req = [r \in Reqs |-> Idle]
    /\ client \in [Reqs -> [user_id : Users, post_id : PostIds, clicks : 0..MaxClicks]]
    /\ sent = [r \in Reqs |-> 0]
    /\ likes0 = likes
    /\ call = NoCall
    /\ avatar_url = [u \in Users |-> DefaultAvatarUrl]
    /\ areq = [r \in Reqs |-> AvatarIdle]
    /\ users = InitialUsers
    /\ nreq = [r \in Reqs |-> NameIdle]

LikeClick(r) ==
    /\ sent[r] < client[r].clicks
    /\ ToggleRead(r, client[r].user_id, client[r].post_id)
    /\ UNCHANGED scenario

LikeCommit(r) ==
    /\ ToggleCommit(r, FALSE)
    /\ UNCHANGED scenario

LikeAnswered(r) ==
    /\ Respond(r)
    /\ sent' = [sent EXCEPT ![r] = @ + 1]
    /\ UNCHANGED <<client, likes0, rest>>

LikesNext == \E r \in Reqs : LikeClick(r) \/ LikeCommit(r) \/ LikeAnswered(r)

SpecLikes == LikesInit /\ [][LikesNext]_vars

\* the (user, post) pair client r toggles
KeyOf(r) == <<client[r].user_id, client[r].post_id>>

\* C7: with no like row (u, p) on an existing post p, two toggle_like requests
\* of u on p, one after the other, leave no row (u, p) and every other like row
\* as it was: the first adds the row, the second removes it.
C7_ToggleTwice ==
    \A r \in Reqs :
        (/\ client[r].clicks = 2
         /\ \A q \in Reqs \ {r} : client[q].clicks = 0
         /\ posts[client[r].post_id] # NoRow
         /\ likes0[KeyOf(r)] = 0)
        => /\ (sent[r] = 0 /\ req[r].pc = "done" => req[r].response = "liked")
           /\ (sent[r] = 1 /\ req[r].pc = "done" => req[r].response = "unliked")
           /\ ((sent[r] = 0 /\ req[r].pc = "done")
               \/ (sent[r] = 1 /\ req[r].pc # "done")
                  => likes = [likes0 EXCEPT ![KeyOf(r)] = 1])
           /\ ((sent[r] = 1 /\ req[r].pc = "done") \/ sent[r] = 2
                  => likes = likes0)

\* both toggles of the client are answered, while the other user likes the post
C7_Witness ==
    \E r \in Reqs :
        /\ client[r].clicks = 2 /\ sent[r] = 2
        /\ \A q \in Reqs \ {r} : client[q].clicks = 0
        /\ posts[client[r].post_id] # NoRow
        /\ likes0[KeyOf(r)] = 0 /\ likes[KeyOf(r)] = 0
        /\ \E u \in Users : likes[<<u, client[r].post_id>>] = 1

\* C8: when two different users send toggle_like on the same existing post side
\* by side, in every interleaving of their selects and commits both requests
\* succeed, and each user's like row ends as that user's toggle alone leaves
\* it; no other row changes.
C8_TwoUsersToggle ==
    \A r, q \in Reqs :
        (/\ r # q
         /\ client[r].clicks = 1 /\ client[q].clicks = 1
         /\ \A o \in Reqs \ {r, q} : client[o].clicks = 0
         /\ client[r].user_id # client[q].user_id
         /\ client[r].post_id = client[q].post_id
         /\ posts[client[r].post_id] # NoRow)
        => /\ \A c \in {r, q} :
                  /\ req[c].pc = "done" => req[c].response \in {"liked", "unliked"}
                  /\ likes[KeyOf(c)] =
                         IF req[c].pc = "done" \/ sent[c] = 1
                         THEN 1 - likes0[KeyOf(c)] ELSE likes0[KeyOf(c)]
           /\ \A k \in (Users \X PostIds) \ {KeyOf(r), KeyOf(q)} : likes[k] = likes0[k]

\* the two users' toggles overlapped: one has committed its insert after the
\* other's select found that user's row, which is about to be deleted
C8_Witness ==
    \E r, q \in Reqs :
        /\ r # q
        /\ client[r].clicks = 1 /\ client[q].clicks = 1
        /\ client[r].user_id # client[q].user_id
        /\ client[r].post_id = client[q].post_id
        /\ req[r].pc = "done" /\ req[r].response = "liked"
        /\ req[q].pc = "like_commit" /\ req[q].existing
        /\ likes[KeyOf(r)] = 1 /\ likes[KeyOf(q)] = 1

\* ---------------------------------------------------------------------
\* The normalizer scenario: one call of process_and_save_image with any
\* source and any target path in a directory that does not hold the target.
ImageWidths == {1, 1000, 2560, 2561, 6000}
ImageHeights == {1, 600, 1440, 1441, 4000}
Extensions == {"webp", "jpg", ""}
Sources == [fails : Failures, size : ImageWidths \X ImageHeights, rotated : BOOLEAN]
TargetPaths == {JoinPath(d, <<1, e>>) : d \in {POSTS_PATH, AVATARS_PATH}, e \in Extensions}

NormalizerInit ==
    /\ posts = [p \in PostIds |-> NoRow]
    /\ images = {}
    /\ comments = [p \in PostIds |-> 0]
    /\ likes = [k \in Users \X PostIds |-> 0]
    /\ disk \in {{}, {JoinPath(POSTS_PATH, Filename(2))}}
    /\ writer = 0
    /\ req = [r \in Reqs |-> Idle]
    /\ client = [r \in Reqs |-> [user_id |-> NoUser, post_id |-> 0, clicks |-> 0]]
    /\ sent = [r \in Reqs |-> 0]
    /\ likes0 = likes
    /\ call \in [pc : {"called"}, source : Sources, target_path : TargetPaths,
                  partial : BOOLEAN, before : {disk}]
    /\ avatar_url = [u \in Users |-> DefaultAvatarUrl]
    /\ areq = [r \in Reqs |-> AvatarIdle]
    /\ users = InitialUsers
    /\ nreq = [r \in Reqs |-> NameIdle]

\* the call runs and returns (or raises) to its caller
NormalizerReturn ==
    /\ call.pc = "called"
    /\ LET out == NormalizeAndSave(call.source, call.target_path, call.partial)
       IN  /\ disk' = disk \cup out.written
           /\ call' = [pc |-> "returned", source |-> call.source,
                       target_path |-> call.target_path, partial |-> call.partial,
                       before |-> call.before, ret |-> out.ret, size |-> out.size,
                       raised |-> out.raised]
    /\ UNCHANGED <<db, writer, req, client, sent, likes0, accounts>>

NormalizerNext == NormalizerReturn

SpecNormalizer == NormalizerInit /\ [][NormalizerNext]_vars

\* C11: process_and_save_image never raises to its caller; when nothing in
\* it fails it returns the path of the one file it wrote; when decoding,
\* transforming or encoding fails it returns None; and after a decode failure
\* there is no file at the target path and no file was written.
C11_NeverRaises ==
    call.pc = "returned" =>
        /\ ~call.raised
        /\ (call.source.fails = "none" =>
               /\ call.ret # None
               /\ call.ret \notin call.before
               /\ disk = call.before \cup {call.ret})
        /\ (call.source.fails # "none" => call.ret = None)
        /\ (call.source.fails = "decode" =>
               /\ call.target_path \notin disk
               /\ TargetPathWebp(call.target_path) \notin disk
               /\ disk = call.before)

\* a call on a source that does not decode has returned None; the directory
\* holds the file it held before and nothing else
C11_Witness ==
    /\ call.pc = "returned" /\ call.source.fails = "decode"
    /\ call.ret = None /\ ~call.raised
    /\ disk = {JoinPath(POSTS_PATH, Filename(2))}

\* the size of the source as Image.open reports it
C12_StoredSize == call.source.size
\* the size of the source once its EXIF orientation is applied
C12_OrientedSize == ExifTranspose(call.source.size, call.source.rotated)
\* the written path is the target path with the extension replaced by webp
C12_WebpPath ==
    /\ call.ret \in disk
    /\ call.ret[1] = call.target_path[1]
    /\ call.ret[2][1] = call.target_path[2][1]
    /\ call.ret[2][2] = "webp"

\* C12 as stated: for every decodable input of width w and height h the image
\* written is at most 2560 wide and 1440 high, is not larger than w by h on
\* either axis, keeps w by h when that is within the bound, and is written
\* to a path ending in .webp.
C12_AsStated ==
    (call.pc = "returned" /\ call.source.fails = "none") =>
        /\ call.size[1] <= 2560 /\ call.size[2] <= 1440
        /\ call.size[1] <= C12_StoredSize[1] /\ call.size[2] <= C12_StoredSize[2]
        /\ (C12_StoredSize[1] <= 2560 /\ C12_StoredSize[2] <= 1440
               => call.size = C12_StoredSize)
        /\ C12_WebpPath

\* C12 amended: the same, with the width and height of the input taken after
\* its EXIF orientation is applied (orientations 5 to 8 swap the axes).
C12_Amended ==
    (call.pc = "returned" /\ call.source.fails = "none") =>
        /\ call.size[1] >= 1 /\ call.size[2] >= 1
        /\ call.size[1] <= 2560 /\ call.size[2] <= 1440
        /\ call.size[1] <= C12_OrientedSize[1] /\ call.size[2] <= C12_OrientedSize[2]
        /\ (C12_OrientedSize[1] <= 2560 /\ C12_OrientedSize[2] <= 1440
               => call.size = C12_OrientedSize)
        /\ C12_WebpPath

\* a rotated source, higher than the bound once turned, was scaled down to
\* the full height and written as .webp although a .jpg path was asked for
C12_Witness ==
    /\ call.pc = "returned" /\ call.source.fails = "none"
    /\ call.source.rotated /\ C12_OrientedSize[2] > 1440
    /\ call.size[2] = 1440 /\ call.size[1] < C12_OrientedSize[1]
    /\ call.target_path[2][2] = "jpg" /\ call.ret[2][2] = "webp"

\* ---------------------------------------------------------------------
\* update_avatar (app/api/auth.py), several requests side by side.
AvatarStems == 1..(NumNames + 1)
outside == <<db, writer, req, client, sent, likes0, call, names>>

AvatarFiles == {f \in disk : f[1] = AVATARS_PATH}
UsedAvatarStems ==
    {StemOf(f) : f \in AvatarFiles}
    \cup {StemOf(avatar_url[u]) : u \in {v \in Users : ~IsDefaultAvatar(avatar_url[v])}}
    \cup UNION {IF areq[r].pc \in {"av_save", "av_remove", "av_commit"}
                THEN (IF IsDefaultAvatar(areq[r].old_url) THEN {}
                      ELSE {StemOf(areq[r].old_url)})
                     \cup (IF areq[r].saved = None THEN {} ELSE {StemOf(areq[r].saved)})
                ELSE {} : r \in Reqs}
\* uuid.uuid4().hex: the first name nothing carries
NewAvatarStem ==
    LET fresh == AvatarStems \ UsedAvatarStems
    IN  {n \in fresh : \A t \in fresh : n <= t}
AvatarAccepts(r) == areq[r].pc = "idle" /\ \A q \in Reqs : areq[q].pc = "idle" => r <= q

\* the request is over: its session closes and the response leaves
AvatarFinish(r, user_id, response) ==
    areq' = [areq EXCEPT ![r] = [pc |-> "done", user_id |-> user_id, response |-> response]]

\* lines 162-167: load the user; nothing to do without an upload
UpdateAvatarLoad(r, user_id, kind) ==
    /\ areq[r].pc = "idle"
    /\ IF user_id \notin Users
       THEN AvatarFinish(r, user_id, "logout")
       ELSE IF kind = "noname"
       THEN AvatarFinish(r, user_id, "unchanged")
       ELSE areq' = [areq EXCEPT ![r] =
                        [pc |-> "av_save", user_id |-> user_id, kind |-> kind,
                         old_url |-> avatar_url[user_id], saved |-> None,
                         old_file_path |-> None]]
    /\ UNCHANGED <<avatar_url, disk>>

\* lines 169-177 and 191-192: the directory, the new name, the normalizer
UpdateAvatarSave(r, fault) ==
    /\ areq[r].pc = "av_save"
    /\ IF fault
       THEN AvatarFinish(r, areq[r].user_id, "error") /\ UNCHANGED disk
       ELSE \E filename_base \in NewAvatarStem :
                LET target_path == JoinPath(AVATARS_PATH, Filename(filename_base))
                    actual_saved_path == ProcessAndSaveImage(areq[r].kind, target_path)
                IN  /\ disk' = disk \cup actual_saved_path.written
                    /\ IF actual_saved_path.ret = None
                       THEN AvatarFinish(r, areq[r].user_id, "error")
                       ELSE areq' = [areq EXCEPT ![r].pc = "av_remove",
                                                 ![r].saved = actual_saved_path.ret]
    /\ UNCHANGED avatar_url

\* update_avatar without the default_avatar.png test
OwnsAvatarFileAlways(url) == TRUE

\* line 178: user.avatar_url and "default_avatar.png" not in user.avatar_url
OwnsAvatarFile(url) == url # None /\ ~IsDefaultAvatar(url)

\* lines 178-182: the old file goes, unless it is the default; an exception
\* of os.remove is caught by the handler of the whole block (194-196)
UpdateAvatarRemoveOld(r, ioerr) ==
    /\ areq[r].pc = "av_remove"
    /\ IF OwnsAvatarFile(areq[r].old_url)
       THEN LET old_file_path == JoinPath(AVATARS_PATH, Basename(areq[r].old_url))
            IN  IF old_file_path \in disk
                THEN IF ioerr
                     THEN AvatarFinish(r, areq[r].user_id, "error") /\ UNCHANGED disk
                     ELSE /\ disk' = disk \ {old_file_path}
                          /\ areq' = [areq EXCEPT ![r].pc = "av_commit",
                                                   ![r].old_file_path = old_file_path]
                ELSE /\ areq' = [areq EXCEPT ![r].pc = "av_commit",
                                              ![r].old_file_path = old_file_path]
                     /\ UNCHANGED disk
       ELSE /\ areq' = [areq EXCEPT ![r].pc = "av_commit"]
            /\ UNCHANGED disk
    /\ UNCHANGED avatar_url

\* lines 184-190: the new avatar_url and its commit; 194-196 on an exception
UpdateAvatarCommit(r, fault) ==
    /\ areq[r].pc = "av_commit"
    /\ IF fault
       THEN AvatarFinish(r, areq[r].user_id, "error") /\ UNCHANGED avatar_url
       ELSE /\ avatar_url' = [avatar_url EXCEPT ![areq[r].user_id] =
                                  AvatarWebPath(Basename(areq[r].saved))]
            /\ AvatarFinish(r, areq[r].user_id, "success")
    /\ UNCHANGED disk

\* the worker of the request dies
AvatarCrash(r) ==
    /\ areq[r].pc \in {"av_save", "av_remove", "av_commit"}
    /\ AvatarFinish(r, areq[r].user_id, "crashed")
    /\ UNCHANGED <<avatar_url, disk>>

\* the response has left: the worker is free
AvatarRespond(r) ==
    /\ areq[r].pc = "done"
    /\ areq' = [areq EXCEPT ![r] = AvatarIdle]
    /\ UNCHANGED <<avatar_url, disk>>

AvatarInit ==
    /\ posts = [p \in PostIds |-> NoRow]
    /\ images = {}
    /\ comments = [p \in PostIds |-> 0]
    /\ likes = [k \in Users \X PostIds |-> 0]
    /\ disk = {DefaultAvatarFile}
    /\ writer = 0
    /\ req = [r \in Reqs |-> Idle]
    /\ client = [r \in Reqs |-> [user_id |-> NoUser, post_id |-> 0, clicks |-> 0]]
    /\ sent = [r \in Reqs |-> 0]
    /\ likes0 = likes
    /\ call = NoCall
    /\ avatar_url = [u \in Users |-> DefaultAvatarUrl]
    /\ areq = [r \in Reqs |-> AvatarIdle]
    /\ users = InitialUsers
    /\ nreq = [r \in Reqs |-> NameIdle]

AvatarStep(r) ==
    \/ \E u \in Callers, k \in UploadKinds :
           AvatarAccepts(r) /\ UpdateAvatarLoad(r, u, k) /\ UNCHANGED outside
    \/ \E f \in BOOLEAN : UpdateAvatarSave(r, f) /\ UNCHANGED outside
    \/ \E e \in BOOLEAN : UpdateAvatarRemoveOld(r, e) /\ UNCHANGED outside
    \/ \E f \in BOOLEAN : UpdateAvatarCommit(r, f) /\ UNCHANGED outside
    \/ AvatarCrash(r) /\ UNCHANGED outside
    \/ AvatarRespond(r) /\ UNCHANGED outside

AvatarNext == \E r \in Reqs : AvatarStep(r)

SpecAvatar == AvatarInit /\ [][AvatarNext]_vars

\* worker r takes a step of its update_avatar request
AvatarRuns(r) == areq'[r] # areq[r] /\ areq[r].pc # "done"
\* worker r's update_avatar request ends in this step with the response
AvatarEnds(r, response) ==
    AvatarRuns(r) /\ areq'[r].pc = "done" /\ areq'[r].response = response

\* C13 as stated, for update_avatar: whatever the removal of the previous
\* avatar file does (it succeeds, it raises, the file is absent), the request
\* goes on to its commit unless its worker dies, and the new avatar_url is
\* committed unless the commit itself fails.
C13_AsStated ==
    [][\A r \in Reqs :
           /\ (AvatarRuns(r) /\ areq[r].pc = "av_remove" /\ ~AvatarEnds(r, "crashed")
                  => areq'[r].pc = "av_commit")
           /\ (AvatarEnds(r, "success")
                  => avatar_url'[areq[r].user_id] = AvatarWebPath(Basename(areq[r].saved)))]_vars

\* C17: no step of an update_avatar removes the default avatar file; a
\* request whose user had the default avatar_url forms no old file path and
\* removes no file; any other request removes at most the file in the
\* avatars directory that carries the base name of the avatar_url it loaded.
C17_DefaultAvatarKept ==
    [][/\ DefaultAvatarFile \in disk => DefaultAvatarFile \in disk'
       /\ \A r \in Reqs :
              (AvatarRuns(r) /\ areq[r].pc \in {"av_save", "av_remove", "av_commit"}) =>
                  /\ (IsDefaultAvatar(areq[r].old_url) =>
                         /\ disk \subseteq disk'
                         /\ areq'[r].pc = "av_commit" => areq'[r].old_file_path = None)
                  /\ disk \ disk' \subseteq
                         {JoinPath(AVATARS_PATH, Basename(areq[r].old_url))}
       /\ (disk \ disk' # {} =>
              \E r \in Reqs : AvatarRuns(r) /\ areq[r].pc = "av_remove")]_vars

\* one request has removed the file of its user's previous avatar, another,
\* whose user had the default, is at its commit with nothing removed
C17_Witness ==
    \E r, q \in Reqs :
        /\ areq[r].pc = "av_commit" /\ ~IsDefaultAvatar(areq[r].old_url)
        /\ areq[r].old_file_path # None /\ areq[r].old_file_path \notin disk
        /\ areq[q].pc = "av_commit" /\ IsDefaultAvatar(areq[q].old_url)
        /\ areq[q].old_file_path = None
        /\ DefaultAvatarFile \in disk

\* the file a stored avatar url stands for
AvatarFileOf(url) == JoinPath(AVATARS_PATH, Basename(url))

\* C18 as stated: in every reachable state each user's committed avatar_url
\* is the default or names a file that exists in the avatars directory.
C18_AsStated ==
    \A u \in Users :
        IsDefaultAvatar(avatar_url[u]) \/ AvatarFileOf(avatar_url[u]) \in disk

\* ---------------------------------------------------------------------
\* The url scenario: one post whose image rows hold any value a url column
\* can hold, with files inside and outside the posts directory, and
\* delete_post requests for it.
\* the values: what create_post stores, a path into the avatars directory,
\* an absolute path, a path that climbs out of the posts directory, the path
\* of the default avatar, a value whose base name is "..", and one that ends
\* with a slash
UrlValues ==
    {WebPath(Filename(s)) : s \in Stems}
    \cup {<<AVATARS_PATH, Filename(1)>>,
          <<"/etc", Filename(1)>>,
          <<"/static/uploads/posts", "..", "avatars", Filename(1)>>,
          DefaultAvatarFile,
          <<"/static/uploads/posts", DotDot>>,
          <<"/static/uploads/posts", "1.webp", EmptyName>>}
\* the files: in the posts directory and elsewhere
UrlFiles ==
    {JoinPath(POSTS_PATH, Filename(s)) : s \in Stems}
    \cup {JoinPath(AVATARS_PATH, Filename(1)), JoinPath("/etc", Filename(1)),
          DefaultAvatarFile}
UrlRows == [url : UrlValues, post_id : PostIds]

UrlsInit ==
    /\ posts \in [PostIds -> Users]
    /\ images \in {rows \in SUBSET UrlRows : Cardinality(rows) <= MaxUploads}
    /\ comments = [p \in PostIds |-> 0]
    /\ likes = [k \in Users \X PostIds |-> 0]
    /\ disk \in SUBSET UrlFiles
    /\ writer = 0
    /\ req = [r \in Reqs |-> Idle]
    /\ client = [r \in Reqs |-> [user_id |-> NoUser, post_id |-> 0, clicks |-> 0]]
    /\ sent = [r \in Reqs |-> 0]
    /\ likes0 = likes
    /\ call = NoCall
    /\ avatar_url = [u \in Users |-> DefaultAvatarUrl]
    /\ areq = [r \in Reqs |-> AvatarIdle]
    /\ users = InitialUsers
    /\ nreq = [r \in Reqs |-> NameIdle]

UrlsStep(r) ==
    \/ \E u \in Callers, p \in PostIds :
           Accepts(r) /\ DeleteLoad(r, u, p) /\ UNCHANGED scenario
    \/ \E i \in req[r].todo, e \in BOOLEAN : DeleteFile(r, i, e) /\ UNCHANGED scenario
    \/ \E f \in BOOLEAN : DeleteCommit(r, f) /\ UNCHANGED scenario
    \/ Crash(r) /\ UNCHANGED scenario
    \/ Respond(r) /\ UNCHANGED scenario

UrlsNext == \E r \in Reqs : UrlsStep(r)

SpecUrls == UrlsInit /\ [][UrlsNext]_vars

\* C16: whatever the stored url is, every path delete_post tries to remove
\* is the posts directory joined with the base name of the url of an image
\* row it loaded; every file that leaves the disk is such a path and a
\* direct child of the posts directory; no file outside the posts directory
\* and no directory is removed.
C16_OnlyPostsDirectory ==
    [][/\ \A f \in disk \ disk' :
              /\ f[1] = POSTS_PATH
              /\ f \notin Directories
              /\ \E r \in Reqs :
                     /\ Runs(r, "delete_post") /\ req[r].pc = "del_files"
                     /\ \E i \in req[r].todo \ req'[r].todo :
                            f = JoinPath(POSTS_PATH, Basename(i.url))
       /\ \A f \in disk : f[1] # POSTS_PATH => f \in disk'
       /\ \A r \in Reqs :
              req'[r].pc = "del_files" =>
                  \A f \in req'[r].removed \cup req'[r].failed :
                      \E i \in req'[r].images \ req'[r].todo :
                          f = JoinPath(POSTS_PATH, Basename(i.url))]_vars

\* a delete_post of a post whose image rows name a file of the avatars
\* directory and an absolute path has made both attempts: the files of those
\* names in the posts directory are what it removed, the files named are
\* still there
C16_Witness ==
    \E r \in Reqs :
        /\ req[r].pc = "del_files" /\ req[r].todo = {}
        /\ \E i \in req[r].images : i.url[1] \in {AVATARS_PATH, "/etc"}
        /\ req[r].removed = {JoinPath(POSTS_PATH, Filename(1))}
        /\ JoinPath(AVATARS_PATH, Filename(1)) \in disk
        /\ JoinPath("/etc", Filename(1)) \in disk

\* ---------------------------------------------------------------------
\* The name scenario: register and update_name requests (app/api/auth.py)
\* over the user table, side by side in sessions of their own.
Ann == <<"A", "n">>
Bob == <<"B", "o">>
\* what the form field display_name can carry: names, a name with blanks
\* around it, one letter, blanks only, 20 and 21 letters
FormValues ==
    {Ann, <<" ", "A", "n", " ">>, Bob, AdminName, <<"A">>, <<" ", " ">>,
     [j \in 1..20 |-> "x"], [j \in 1..21 |-> "x"]}
\* the user id of the session cookie; 0: none, or the id of no row
CookieIds == UserIds \cup {0}
beyond == <<db, disk, writer, req, client, sent, likes0, call, avatar_url, areq>>

\* the integer key the store gives the next user row: max(rowid) + 1
NextUserId ==
    LET ids == {u.id : u \in users}
    IN  (CHOOSE m \in ids : \A j \in ids : j <= m) + 1
\* select(User).where(User.display_name == name)
UsersNamed(name) == {u \in users : u.display_name = name}

NameAccepts(r) == nreq[r].pc = "idle" /\ \A q \in Reqs : nreq[q].pc = "idle" => r <= q
NameFinish(r, op, response) ==
    nreq' = [nreq EXCEPT ![r] = [pc |-> "done", op |-> op, response |-> response]]

\* register, lines 74-89: strip, the length checks, the uniqueness select
RegisterCheck(r, form) ==
    /\ nreq[r].pc = "idle"
    /\ LET name == Strip(form)
       IN  IF Len(name) < 2
           THEN NameFinish(r, "register", "short")
           ELSE IF Len(name) > 20
           THEN NameFinish(r, "register", "long")
           ELSE IF UsersNamed(name) # {}
           THEN NameFinish(r, "register", "taken")
           ELSE nreq' = [nreq EXCEPT ![r] =
                            [pc |-> "reg_insert", op |-> "register", name |-> name]]
    /\ UNCHANGED users

\* register, lines 92-114: the insert of the row and its commit; the table
\* has no constraint on display_name
RegisterCommit(r, fault) ==
    /\ nreq[r].pc = "reg_insert"
    /\ IF fault
       THEN NameFinish(r, "register", "OperationalError") /\ UNCHANGED users
       ELSE /\ NextUserId <= MaxUsers
            /\ users' = users \cup {[id |-> NextUserId, display_name |-> nreq[r].name]}
            /\ NameFinish(r, "register", "registered")

\* update_name, lines 208-229: the user of the cookie, strip, the length
\* check, and the select of a row with the new name (first() of the rows
\* that match, in no stated order)
UpdateNameCheck(r, user_id, form) ==
    /\ nreq[r].pc = "idle"
    /\ LET new_name == Strip(form)
           go == nreq' = [nreq EXCEPT ![r] =
                             [pc |-> "name_write", op |-> "update_name",
                              user_id |-> user_id, name |-> new_name]]
       IN  IF \A u \in users : u.id # user_id
           THEN NameFinish(r, "update_name", "login")
           ELSE IF Len(new_name) < 2 \/ Len(new_name) > 20
           THEN NameFinish(r, "update_name", "length")
           ELSE \/ UsersNamed(new_name) = {} /\ go
                \/ \E existing \in UsersNamed(new_name) :
                       IF existing.id # user_id
                       THEN NameFinish(r, "update_name", "taken")
                       ELSE go
    /\ UNCHANGED users

\* update_name, lines 231-237: the assignment and its commit
UpdateNameCommit(r, fault) ==
    /\ nreq[r].pc = "name_write"
    /\ IF fault
       THEN NameFinish(r, "update_name", "OperationalError") /\ UNCHANGED users
       ELSE /\ users' = {IF u.id = nreq[r].user_id
                         THEN [u EXCEPT !.display_name = nreq[r].name]
                         ELSE u : u \in users}
            /\ NameFinish(r, "update_name", "renamed")

\* the worker of a request dies: its session never commits
NameCrash(r) ==
    /\ nreq[r].pc \in {"reg_insert", "name_write"}
    /\ NameFinish(r, nreq[r].op, "crashed")
    /\ UNCHANGED users

NameRespond(r) ==
    /\ nreq[r].pc = "done"
    /\ nreq' = [nreq EXCEPT ![r] = NameIdle]
    /\ UNCHANGED users

NamesInit ==
    /\ posts = [p \in PostIds |-> NoRow]
    /\ images = {}
    /\ comments = [p \in PostIds |-> 0]
    /\ likes = [k \in Users \X PostIds |-> 0]
    /\ disk = {}
    /\ writer = 0
    /\ req = [r \in Reqs |-> Idle]
    /\ client = [r \in Reqs |-> [user_id |-> NoUser, post_id |-> 0, clicks |-> 0]]
    /\ sent = [r \in Reqs |-> 0]
    /\ likes0 = likes
    /\ call = NoCall
    /\ avatar_url = [u \in Users |-> DefaultAvatarUrl]
    /\ areq = [r \in Reqs |-> AvatarIdle]
    /\ users = InitialUsers
    /\ nreq = [r \in Reqs |-> NameIdle]

NamesStep(r) ==
    \/ \E form \in FormValues :
           NameAccepts(r) /\ RegisterCheck(r, form) /\ UNCHANGED beyond
    \/ \E f \in BOOLEAN : RegisterCommit(r, f) /\ UNCHANGED beyond
    \/ \E u \in CookieIds, form \in FormValues :
           NameAccepts(r) /\ UpdateNameCheck(r, u, form) /\ UNCHANGED beyond
    \/ \E f \in BOOLEAN : UpdateNameCommit(r, f) /\ UNCHANGED beyond
    \/ NameCrash(r) /\ UNCHANGED beyond
    \/ NameRespond(r) /\ UNCHANGED beyond

NamesNext == \E r \in Reqs : NamesStep(r)

SpecNames == NamesInit /\ [][NamesNext]_vars

\* C19 as stated: in every reachable state no two user rows have the same
\* display_name, whatever register and update_name requests have run and
\* however they interleaved.
C19_AsStated ==
    \A u, v \in users : u.display_name = v.display_name => u.id = v.id
====
